---- MODULE Spec2Model ----
(***************************************************************************)
(* Model of src/ffi/accessors.c, the C accessor shim over FFmpeg's structs.*)
(*                                                                         *)
(* The shim has no state of its own: every function reads or writes one    *)
(* externally owned struct.  The model keeps one instance of each struct   *)
(* the accessors touch, the small part of the C heap they allocate from,   *)
(* and the last call with its result.  Structs whose layout depends on the *)
(* linked library version are kept once per build (a function over Builds):*)
(* every call is applied to all builds in lockstep, so the generations can *)
(* be compared on the same call sequence.                                  *)
(***************************************************************************)
EXTENDS Integers, Sequences, FiniteSets

\* The null pointer; every pointer of the model is an integer, 0 is NULL.
NULL == 0

(***************************************************************************)
(* Bounds of the model.                                                    *)
(***************************************************************************)
\* Number of hardware context buffers (AVBuffer objects) the host created.
NumObjects == 2
\* Number of AVBufferRef structs the allocator can hand out at one time.
MaxRefs == 3

Objects == 1..NumObjects
RefIds == 1..MaxRefs

(***************************************************************************)
(* The builds: the library versions the shim is compiled against, as       *)
(* (major, minor) of libavcodec and libavutil.  These are the pairs of     *)
(* FFmpeg 4.4, 5.0, 5.1, 6.0 and 7.0.                                      *)
(***************************************************************************)
Builds == {"ffmpeg4.4", "ffmpeg5.0", "ffmpeg5.1", "ffmpeg6.0", "ffmpeg7.0"}

LIBAVCODEC_VERSION_MAJOR(b) ==
  CASE b = "ffmpeg4.4" -> 58 [] b = "ffmpeg5.0" -> 59 [] b = "ffmpeg5.1" -> 59
    [] b = "ffmpeg6.0" -> 60 [] b = "ffmpeg7.0" -> 61

LIBAVCODEC_VERSION_MINOR(b) ==
  CASE b = "ffmpeg4.4" -> 134 [] b = "ffmpeg5.0" -> 18 [] b = "ffmpeg5.1" -> 37
    [] b = "ffmpeg6.0" -> 3 [] b = "ffmpeg7.0" -> 3

LIBAVUTIL_VERSION_MAJOR(b) ==
  CASE b = "ffmpeg4.4" -> 56 [] b = "ffmpeg5.0" -> 57 [] b = "ffmpeg5.1" -> 57
    [] b = "ffmpeg6.0" -> 58 [] b = "ffmpeg7.0" -> 59

LIBAVUTIL_VERSION_MINOR(b) ==
  CASE b = "ffmpeg4.4" -> 70 [] b = "ffmpeg5.0" -> 17 [] b = "ffmpeg5.1" -> 28
    [] b = "ffmpeg6.0" -> 2 [] b = "ffmpeg7.0" -> 8

\* Bitwise operations of C on non-negative ints.
RECURSIVE BitAnd(_, _)
BitAnd(x, y) ==
  IF x = 0 \/ y = 0 THEN 0
  ELSE (x % 2) * (y % 2) + 2 * BitAnd(x \div 2, y \div 2)

\* x | m
BitOr(x, m) == x + m - BitAnd(x, m)
\* x & ~m
BitClear(x, m) == x - BitAnd(x, m)

\* AV_FRAME_FLAG_KEY of libavutil/frame.h: 1 << 1.
AV_FRAME_FLAG_KEY == 2
\* AV_NUM_DATA_POINTERS of libavutil/frame.h.
AV_NUM_DATA_POINTERS == 8

\* AV_INPUT_BUFFER_PADDING_SIZE of libavcodec/defs.h.
AV_INPUT_BUFFER_PADDING_SIZE == 64
\* ENOMEM of errno.h; AVERROR(e) is -e.
ENOMEM == 12
AVERROR(e) == -e

\* Number of heap blocks the allocator can hand out for extradata.
MaxBlocks == 2
\* Largest extradata size a caller passes.
MaxSize == 2
BlockIds == 1..MaxBlocks

\* Largest number of planes of a host-built extended_data array (planar
\* audio has one plane per channel).
MaxExtPlanes == 10
\* Largest number of streams of the format context.
MaxStreams == 2

\* What an execution of undefined behaviour can do: the process faults, or
\* the stale contents of the freed memory are read as they were left.
UBOutcomes == {"fault", "stale"}

VARIABLES
  refs,           \* AVBufferRef structs: [RefIds -> [live, buffer]]
  refcount,       \* AVBuffer.refcount per object; 0: the buffer is destroyed
  host,           \* the AVBufferRef structs the host wrapper owns
  hw_device_ctx,  \* AVCodecContext.hw_device_ctx: a RefId or NULL
  hw_frames_ctx,  \* AVCodecContext.hw_frames_ctx: a RefId or NULL
  frame,          \* the AVFrame, per build: [Builds -> record]
  avctx,          \* the AVCodecContext's channel fields, per build
  fmt,            \* the AVFormatContext: [nb_streams, streams]
  par,            \* the AVCodecParameters: [extradata, extradata_size, audio]
  blocks,         \* heap blocks of av_mallocz: [BlockIds -> [live, bytes]]
  entry,          \* the extradata call's view at entry: [supplied, par]
  build,          \* the compilation: [lavc, lavu, declared, selected, result]
  rational,       \* a rational field and the threads at work on it
  ub,             \* undefined behaviour executed by the last call, or "none"
  faulted,        \* the process has faulted; nothing runs afterwards
  call,           \* the last call: [fn, a, b]
  ret             \* what the last call returned, per build (0 for void)

hwVars == <<refs, refcount, host, hw_device_ctx, hw_frames_ctx>>
parVars == <<par, blocks, entry>>
auxVars == <<build, rational>>
vars == <<hwVars, frame, avctx, fmt, parVars, auxVars, ub, faulted, call, ret>>

Call(fn, a, b) == [fn |-> fn, a |-> a, b |-> b]

\* The result of a call: the same in every build, or one per build.
Ret(v) == [b \in Builds |-> v]
NoRet == Ret(0)

Min(S) == CHOOSE x \in S : \A y \in S : x <= y

(***************************************************************************)
(* The library's reference counting primitive (libavutil/buffer.c), as the *)
(* setters use it.  A heap is [refs, refcount].                            *)
(***************************************************************************)
Heap == [refs |-> refs, refcount |-> refcount]

\* av_buffer_unref(&field): drops the buffer's count, frees the AVBufferRef
\* struct (its bytes stay as they were), destroys the buffer at count 0.
\* On a reference whose buffer is already destroyed the decrement lands in
\* freed memory and the buffer stays destroyed.
av_buffer_unref(H, r) ==
  LET b == H.refs[r].buffer IN
  [refs |-> [H.refs EXCEPT ![r].live = FALSE],
   refcount |-> [H.refcount EXCEPT ![b] = IF @ > 0 THEN @ - 1 ELSE @]]

\* av_buffer_ref(r) on a live reference: a new AVBufferRef struct on the same
\* buffer and the count raised, or NULL when the struct cannot be allocated.
av_buffer_ref(H, r, alloc_ok) ==
  LET free == {n \in RefIds : ~H.refs[n].live}
      b == H.refs[r].buffer
  IN IF alloc_ok /\ free # {}
       THEN [heap |-> [refs |-> [H.refs EXCEPT ![Min(free)] = [live |-> TRUE, buffer |-> b]],
                       refcount |-> [H.refcount EXCEPT ![b] = @ + 1]],
             ret |-> Min(free)]
       ELSE [heap |-> H, ret |-> NULL]

\* av_buffer_ref(r) on a released reference reads freed memory.  When the
\* stale bytes are read, the struct still names its old buffer: a buffer
\* that is still alive gets its count raised, a destroyed one stays
\* destroyed (the increment lands in freed memory).
av_buffer_ref_released(H, r, alloc_ok) ==
  LET free == {n \in RefIds : ~H.refs[n].live}
      b == H.refs[r].buffer
  IN IF alloc_ok /\ free # {}
       THEN [heap |-> [refs |-> [H.refs EXCEPT ![Min(free)] = [live |-> TRUE, buffer |-> b]],
                       refcount |-> [H.refcount EXCEPT
                                       ![b] = IF @ > 0 THEN @ + 1 ELSE @]],
             ret |-> Min(free)]
       ELSE [heap |-> H, ret |-> NULL]

(***************************************************************************)
(* ffctx_set_hw_device_ctx / ffctx_set_hw_frames_ctx: the two setters have *)
(* the same body on their own field.  cur is the field, arg the reference  *)
(* supplied.  Result: the heap, the field, the undefined behaviour met and *)
(* whether the process faulted.                                            *)
(***************************************************************************)
hw_set_ref(H, cur, arg, alloc_ok, outcome) ==
  LET H1 == IF cur # NULL THEN av_buffer_unref(H, cur) ELSE H
  IN IF arg = NULL
       THEN [heap |-> H1, field |-> NULL, ub |-> "none", faulted |-> FALSE]
     ELSE IF H1.refs[arg].live
       THEN LET R == av_buffer_ref(H1, arg, alloc_ok)
            IN [heap |-> R.heap, field |-> R.ret, ub |-> "none", faulted |-> FALSE]
     ELSE IF outcome = "fault"
       THEN [heap |-> H1, field |-> NULL, ub |-> "acquire_released", faulted |-> TRUE]
     ELSE LET R == av_buffer_ref_released(H1, arg, alloc_ok)
          IN [heap |-> R.heap, field |-> R.ret, ub |-> "acquire_released",
              faulted |-> FALSE]

\* The references a caller can pass: NULL, or any AVBufferRef alive at the
\* call: one the host owns, or one a context field holds.
LiveRefs == {r \in RefIds : refs[r].live}
HwArgs == {NULL} \cup LiveRefs

ffctx_set_hw_device_ctx(arg, alloc_ok, outcome) ==
  /\ ~faulted
  /\ LET R == hw_set_ref(Heap, hw_device_ctx, arg, alloc_ok, outcome) IN
       /\ hw_device_ctx' = R.field
       /\ refs' = R.heap.refs
       /\ refcount' = R.heap.refcount
       /\ ub' = R.ub
       /\ faulted' = R.faulted
  /\ call' = Call("ffctx_set_hw_device_ctx", arg, 0)
  /\ ret' = NoRet
  /\ UNCHANGED <<frame, avctx, fmt, auxVars, parVars>>
  /\ UNCHANGED <<host, hw_frames_ctx>>

ffctx_set_hw_frames_ctx(arg, alloc_ok, outcome) ==
  /\ ~faulted
  /\ LET R == hw_set_ref(Heap, hw_frames_ctx, arg, alloc_ok, outcome) IN
       /\ hw_frames_ctx' = R.field
       /\ refs' = R.heap.refs
       /\ refcount' = R.heap.refcount
       /\ ub' = R.ub
       /\ faulted' = R.faulted
  /\ call' = Call("ffctx_set_hw_frames_ctx", arg, 0)
  /\ ret' = NoRet
  /\ UNCHANGED <<frame, avctx, fmt, auxVars, parVars>>
  /\ UNCHANGED <<host, hw_device_ctx>>

\* The host takes another reference of its own on a buffer it references.
HostRef(r, alloc_ok) ==
  /\ ~faulted
  /\ r \in host
  /\ LET R == av_buffer_ref(Heap, r, alloc_ok) IN
       /\ refs' = R.heap.refs
       /\ refcount' = R.heap.refcount
       /\ host' = IF R.ret = NULL THEN host ELSE host \cup {R.ret}
  /\ ub' = "none"
  /\ call' = Call("av_buffer_ref", r, 0)
  /\ ret' = NoRet
  /\ UNCHANGED <<frame, avctx, fmt, auxVars, parVars>>
  /\ UNCHANGED <<hw_device_ctx, hw_frames_ctx, faulted>>

\* The host drops one of its own references.
HostUnref(r) ==
  /\ ~faulted
  /\ r \in host
  /\ LET H1 == av_buffer_unref(Heap, r) IN
       /\ refs' = H1.refs
       /\ refcount' = H1.refcount
  /\ host' = host \ {r}
  /\ ub' = "none"
  /\ call' = Call("av_buffer_unref", r, 0)
  /\ ret' = NoRet
  /\ UNCHANGED <<frame, avctx, fmt, auxVars, parVars>>
  /\ UNCHANGED <<hw_device_ctx, hw_frames_ctx, faulted>>

InitHw ==
  /\ refs = [r \in RefIds |-> IF r <= NumObjects
                                THEN [live |-> TRUE, buffer |-> r]
                                ELSE [live |-> FALSE, buffer |-> 1]]
  /\ refcount = [o \in Objects |-> 1]
  /\ host = Objects
  /\ hw_device_ctx = NULL
  /\ hw_frames_ctx = NULL


(***************************************************************************)
(* AVFrame: key-frame signal.                                              *)
(***************************************************************************)
\* A setter that assigns the flags word instead of setting or clearing the
\* key bit in it.
set_key_frame_assign(b, fr, key_frame) ==
  IF LIBAVUTIL_VERSION_MAJOR(b) >= 59
    THEN [fr EXCEPT !.flags = IF key_frame # 0 THEN AV_FRAME_FLAG_KEY ELSE 0]
    ELSE [fr EXCEPT !.key_frame = key_frame]

\* ffframe_set_key_frame, as compiled for build b, on frame struct fr.
set_key_frame(b, fr, key_frame) ==
  IF LIBAVUTIL_VERSION_MAJOR(b) >= 59
    THEN IF key_frame # 0
           THEN [fr EXCEPT !.flags = BitOr(@, AV_FRAME_FLAG_KEY)]
           ELSE [fr EXCEPT !.flags = BitClear(@, AV_FRAME_FLAG_KEY)]
    ELSE [fr EXCEPT !.key_frame = key_frame]

\* ffframe_get_key_frame, as compiled for build b.
get_key_frame(b, fr) ==
  IF LIBAVUTIL_VERSION_MAJOR(b) >= 59
    THEN (IF BitAnd(fr.flags, AV_FRAME_FLAG_KEY) # 0 THEN 1 ELSE 0)
    ELSE fr.key_frame

ffframe_set_key_frame(key_frame) ==
  /\ ~faulted
  /\ frame' = [b \in Builds |-> set_key_frame(b, frame[b], key_frame)]
  /\ call' = Call("ffframe_set_key_frame", key_frame, 0)
  /\ ret' = NoRet
  /\ ub' = "none"
  /\ UNCHANGED <<hwVars, avctx, fmt, auxVars, parVars, faulted>>

ffframe_get_key_frame ==
  /\ ~faulted
  /\ ret' = [b \in Builds |-> get_key_frame(b, frame[b])]
  /\ call' = Call("ffframe_get_key_frame", 0, 0)
  /\ ub' = "none"
  /\ UNCHANGED <<hwVars, frame, avctx, fmt, auxVars, parVars, faulted>>

ffframe_set_pict_type(pict_type) ==
  /\ ~faulted
  /\ frame' = [b \in Builds |-> [frame[b] EXCEPT !.pict_type = pict_type]]
  /\ call' = Call("ffframe_set_pict_type", pict_type, 0)
  /\ ret' = NoRet
  /\ ub' = "none"
  /\ UNCHANGED <<hwVars, avctx, fmt, auxVars, parVars, faulted>>

ffframe_get_pict_type ==
  /\ ~faulted
  /\ ret' = [b \in Builds |-> frame[b].pict_type]
  /\ call' = Call("ffframe_get_pict_type", 0, 0)
  /\ ub' = "none"
  /\ UNCHANGED <<hwVars, frame, avctx, fmt, auxVars, parVars, faulted>>

(***************************************************************************)
(* AVFrame planes and AVFormatContext streams: indexed reads.              *)
(***************************************************************************)
\* The C read arr[i] of an array of len elements indexed from 0: the
\* element, or undefined behaviour when i is outside the array.
ArrayRead(arr, len, i, outcome, garbage) ==
  IF 0 <= i /\ i < len
    THEN [v |-> arr[i], ub |-> "none", faulted |-> FALSE]
  ELSE IF outcome = "fault"
    THEN [v |-> 0, ub |-> "read_out_of_bounds", faulted |-> TRUE]
  ELSE [v |-> garbage, ub |-> "read_out_of_bounds", faulted |-> FALSE]

Returned(v) == [v |-> v, ub |-> "none", faulted |-> FALSE]

\* ffframe_data and ffframe_data_const (the same body).
frame_data(fr, plane, outcome, garbage) ==
  IF plane < 0 \/ plane >= AV_NUM_DATA_POINTERS
    THEN Returned(NULL)
    ELSE ArrayRead(fr.data, AV_NUM_DATA_POINTERS, plane, outcome, garbage)

\* ffframe_linesize.
frame_linesize(fr, plane, outcome, garbage) ==
  IF plane < 0 \/ plane >= AV_NUM_DATA_POINTERS
    THEN Returned(0)
    ELSE ArrayRead(fr.linesize, AV_NUM_DATA_POINTERS, plane, outcome, garbage)

\* The array frame->extended_data points at.  Pointer 1 is frame->data
\* itself (what the library sets for up to AV_NUM_DATA_POINTERS planes);
\* pointer 10 + n is an array of n plane pointers the host built.
DATA_ARRAY == 1
HostArray(n) == 10 + n
HostArrayLens == {2, MaxExtPlanes}
ExtPointers == {NULL, DATA_ARRAY} \cup {HostArray(n) : n \in HostArrayLens}
ExtLen(p) == IF p = DATA_ARRAY THEN AV_NUM_DATA_POINTERS ELSE p - 10
ExtArray(fr, p) ==
  IF p = DATA_ARRAY THEN fr.data ELSE [i \in 0..(ExtLen(p) - 1) |-> 100 * p + i]

\* ffframe_extended_data_plane.
frame_extended_data_plane(fr, plane, outcome, garbage) ==
  IF fr.extended_data = NULL
    THEN Returned(NULL)
    ELSE ArrayRead(ExtArray(fr, fr.extended_data), ExtLen(fr.extended_data),
                   plane, outcome, garbage)

\* An index test that lets index == nb_streams through.
fmt_get_stream_off_by_one(fc, index, outcome, garbage) ==
  IF index > fc.nb_streams
    THEN Returned(NULL)
    ELSE ArrayRead(fc.streams, fc.nb_streams, index, outcome, garbage)

\* fffmt_get_stream; index is an unsigned int.
fmt_get_stream(fc, index, outcome, garbage) ==
  IF index >= fc.nb_streams
    THEN Returned(NULL)
    ELSE ArrayRead(fc.streams, fc.nb_streams, index, outcome, garbage)

\* A getter's step: the same result in every build.
Getter(fn, a, R) ==
  /\ ~faulted
  /\ ret' = Ret(R.v)
  /\ ub' = R.ub
  /\ faulted' = R.faulted
  /\ call' = Call(fn, a, 0)
  /\ UNCHANGED <<hwVars, frame, avctx, fmt, auxVars, parVars>>

\* A setter's step on the frame: F(fr) is the frame after it.
FrameSetter(fn, a, b, F(_)) ==
  /\ ~faulted
  /\ frame' = [bd \in Builds |-> F(frame[bd])]
  /\ call' = Call(fn, a, b)
  /\ ret' = NoRet
  /\ ub' = "none"
  /\ UNCHANGED <<hwVars, avctx, fmt, auxVars, parVars, faulted>>

\* The plane accessors do not depend on the build: any build's frame.
AnyFrame == frame[CHOOSE b \in Builds : TRUE]

ffframe_data(plane, outcome, garbage) ==
  Getter("ffframe_data", plane, frame_data(AnyFrame, plane, outcome, garbage))

ffframe_data_const(plane, outcome, garbage) ==
  Getter("ffframe_data_const", plane, frame_data(AnyFrame, plane, outcome, garbage))

ffframe_linesize(plane, outcome, garbage) ==
  Getter("ffframe_linesize", plane, frame_linesize(AnyFrame, plane, outcome, garbage))

ffframe_extended_data_plane(plane, outcome, garbage) ==
  Getter("ffframe_extended_data_plane", plane,
         frame_extended_data_plane(AnyFrame, plane, outcome, garbage))

fffmt_get_stream(index, outcome, garbage) ==
  Getter("fffmt_get_stream", index, fmt_get_stream(fmt, index, outcome, garbage))

fffmt_get_nb_streams ==
  Getter("fffmt_get_nb_streams", 0, Returned(fmt.nb_streams))

set_data(fr, plane, data) ==
  IF plane >= 0 /\ plane < AV_NUM_DATA_POINTERS
    THEN [fr EXCEPT !.data[plane] = data]
    ELSE fr

set_linesize(fr, plane, linesize) ==
  IF plane >= 0 /\ plane < AV_NUM_DATA_POINTERS
    THEN [fr EXCEPT !.linesize[plane] = linesize]
    ELSE fr

ffframe_set_data(plane, data) ==
  LET F(fr) == set_data(fr, plane, data)
  IN FrameSetter("ffframe_set_data", plane, data, F)

ffframe_set_linesize(plane, linesize) ==
  LET F(fr) == set_linesize(fr, plane, linesize)
  IN FrameSetter("ffframe_set_linesize", plane, linesize, F)

ffframe_set_extended_data(extended_data) ==
  LET F(fr) == [fr EXCEPT !.extended_data = extended_data]
  IN FrameSetter("ffframe_set_extended_data", extended_data, 0, F)

(***************************************************************************)
(* AVCodecParameters: extradata.  A byte pointer is NULL, a heap block     *)
(* (1..MaxBlocks) or a buffer of the caller (CallerPtrs).                  *)
(***************************************************************************)
CallerPtrs == {501, 502}
\* The bytes of a caller's buffer (MaxSize of them).
CallerBytes(p) == [i \in 1..MaxSize |-> (p - 500) * 16 + i]

Zeros(n) == [i \in 1..n |-> 0]
Prefix(bytes, n) == SubSeq(bytes, 1, n)

\* The memory of the extradata: the struct and the heap.
ParMem == [par |-> par, blocks |-> blocks]

FreedBlock == [live |-> FALSE, bytes |-> <<>>]

\* Lines 951-952 with the size left as it was.
free_existing_keep_size(M) ==
  [par |-> [M.par EXCEPT !.extradata = NULL],
   blocks |-> IF M.par.extradata = NULL THEN M.blocks
              ELSE [M.blocks EXCEPT ![M.par.extradata] = FreedBlock]]

\* av_freep(&par->extradata); par->extradata_size = 0.  The heap no longer
\* tracks what a freed block holds.
free_existing(M) ==
  [par |-> [M.par EXCEPT !.extradata = NULL, !.extradata_size = 0],
   blocks |-> IF M.par.extradata = NULL THEN M.blocks
              ELSE [M.blocks EXCEPT ![M.par.extradata] = FreedBlock]]

\* The test of line 954 with size < 0 in place of size <= 0.
is_clear_request_strict(data, size) == data = NULL \/ size < 0

\* Line 954: the call only clears.
is_clear_request(data, size) == data = NULL \/ size <= 0

\* The bytes memcpy reads at src in heap B: from a caller's buffer, or from
\* a heap block, live or freed.
BytesAt(B, src, size) ==
  IF src \in CallerPtrs THEN Prefix(CallerBytes(src), size)
  ELSE Prefix(B[src].bytes, size)

Overwrite(bytes, new) ==
  [i \in 1..Len(bytes) |-> IF i <= Len(new) THEN new[i] ELSE bytes[i]]

\* ffcodecpar_set_extradata on memory M.  blk is what av_mallocz returns: a
\* free block, or NULL when it fails; outcome is what reading a freed source
\* does: a fault, or the bytes its memory holds by then, which are the
\* zeroes of av_mallocz when the allocator handed the same block out again
\* and the bytes it held at entry otherwise.
\* Result: [par, blocks, ret, ub, faulted].
par_set_extradata(M, data, size, blk, outcome) ==
  LET M1 == free_existing(M)
      done(P, B, r) == [par |-> P, blocks |-> B, ret |-> r, ub |-> "none",
                        faulted |-> FALSE]
  IN IF is_clear_request(data, size)
       THEN done(M1.par, M1.blocks, 0)
     ELSE IF blk = NULL
       THEN done(M1.par, M1.blocks, AVERROR(ENOMEM))
     ELSE LET B2 == [M1.blocks EXCEPT
                       ![blk] = [live |-> TRUE,
                                 bytes |-> Zeros(size + AV_INPUT_BUFFER_PADDING_SIZE)]]
              P2 == [M1.par EXCEPT !.extradata = blk]
              freed_src == data \in BlockIds
              src == IF data = blk THEN BytesAt(B2, data, size)
                     ELSE BytesAt(M.blocks, data, size)
              B3 == [B2 EXCEPT ![blk].bytes = Overwrite(@, src)]
          IN IF freed_src /\ outcome = "fault"
               THEN [par |-> P2, blocks |-> B2, ret |-> 0, ub |-> "read_freed",
                     faulted |-> TRUE]
               ELSE [par |-> [P2 EXCEPT !.extradata_size = size], blocks |-> B3,
                     ret |-> 0,
                     ub |-> IF freed_src THEN "read_freed" ELSE "none",
                     faulted |-> FALSE]

get_extradata(P) == P.extradata
get_extradata_size(P) == P.extradata_size

\* The data pointers a caller can pass: NULL, a buffer of its own, or the
\* pointer ffcodecpar_get_extradata gives it (every heap pointer a call
\* reads is therefore the struct's extradata at entry).
DataArgs == {NULL} \cup CallerPtrs \cup ({par.extradata} \ {NULL})
\* The bytes readable at a data pointer before the call.
SuppliedBytes(data, size) ==
  IF data = NULL \/ size <= 0 THEN <<>> ELSE BytesAt(blocks, data, size)

\* What av_mallocz can return once the existing extradata is freed.
AllocResults == {NULL} \cup {k \in BlockIds : ~blocks[k].live \/ k = par.extradata}
\* What a read of the source can do: only a heap source can be freed memory.
ReadOutcomes(data) == IF data \in BlockIds THEN UBOutcomes ELSE {"stale"}

ffcodecpar_set_extradata(data, size, blk, outcome) ==
  /\ ~faulted
  /\ LET R == par_set_extradata(ParMem, data, size, blk, outcome) IN
       /\ par' = R.par
       /\ blocks' = R.blocks
       /\ ret' = Ret(R.ret)
       /\ ub' = R.ub
       /\ faulted' = R.faulted
  /\ entry' = [supplied |-> SuppliedBytes(data, size), par |-> par]
  /\ call' = Call("ffcodecpar_set_extradata", data, size)
  /\ UNCHANGED <<hwVars, frame, avctx, fmt, auxVars>>

ffcodecpar_get_extradata ==
  Getter("ffcodecpar_get_extradata", 0, Returned(get_extradata(par)))

ffcodecpar_get_extradata_size ==
  Getter("ffcodecpar_get_extradata_size", 0, Returned(get_extradata_size(par)))


(***************************************************************************)
(* Channel layout.  The library's channel-layout functions                 *)
(* (libavutil/channel_layout.c), as the adapters call them.  A mask has    *)
(* bit i set when channel i of the canonical order is present.             *)
(***************************************************************************)
RECURSIVE av_popcount64(_)
av_popcount64(x) == IF x = 0 THEN 0 ELSE (x % 2) + av_popcount64(x \div 2)

\* channel_layout_map: the first layout listed for each channel count
\* (mono, stereo, 2.1, 4.0, 5.0, 5.1, 6.1, 7.1); 0 when none is listed.
DefaultMask(n) ==
  CASE n = 1 -> 4 [] n = 2 -> 3 [] n = 3 -> 11 [] n = 4 -> 263
    [] n = 5 -> 55 [] n = 6 -> 63 [] n = 7 -> 1807 [] n = 8 -> 1599
    [] OTHER -> 0

\* av_get_default_channel_layout (the old API).
av_get_default_channel_layout(n) == DefaultMask(n)
\* av_get_channel_layout_nb_channels (the old API).
av_get_channel_layout_nb_channels(mask) == av_popcount64(mask)

\* An AVChannelLayout zeroed.
ZeroLayout == [order |-> "UNSPEC", nb_channels |-> 0, mask |-> 0]

\* A default that leaves the descriptor alone when no layout is listed for n.
av_channel_layout_default_listed_only(l, n) ==
  IF DefaultMask(n) # 0
    THEN [order |-> "NATIVE", nb_channels |-> n, mask |-> DefaultMask(n)]
    ELSE l

\* av_channel_layout_default(&l, n): the listed layout for n channels, or an
\* unspecified order with n channels (u.mask left as it is).
av_channel_layout_default(l, n) ==
  IF DefaultMask(n) # 0
    THEN [order |-> "NATIVE", nb_channels |-> n, mask |-> DefaultMask(n)]
    ELSE [l EXCEPT !.order = "UNSPEC", !.nb_channels = n]

\* av_channel_layout_from_mask(&l, mask): fails on mask 0 and leaves l.
av_channel_layout_from_mask(l, mask) ==
  IF mask = 0 THEN l
  ELSE [order |-> "NATIVE", nb_channels |-> av_popcount64(mask), mask |-> mask]

\* The getters' fallback: the mask of the default layout for the count.
default_layout_mask(l) == av_channel_layout_default(ZeroLayout, l.nb_channels).mask

layout_mask(l) == IF l.order = "NATIVE" THEN l.mask ELSE default_layout_mask(l)

\* A struct's channel fields under the old API.
set_channels_legacy(st, channels) ==
  [st EXCEPT !.channels = channels,
             !.channel_layout = av_get_default_channel_layout(channels)]

set_channel_layout_legacy(st, channel_layout) ==
  [st EXCEPT !.channel_layout = channel_layout,
             !.channels = av_get_channel_layout_nb_channels(channel_layout)]

\* ffctx_set_channels, as compiled for build b.
ctx_set_channels(b, st, channels) ==
  IF LIBAVCODEC_VERSION_MAJOR(b) >= 60
    THEN [st EXCEPT !.ch_layout = av_channel_layout_default(@, channels)]
  ELSE IF LIBAVCODEC_VERSION_MAJOR(b) >= 59 /\ LIBAVCODEC_VERSION_MINOR(b) >= 24
    THEN [st EXCEPT !.ch_layout = av_channel_layout_default(@, channels)]
  ELSE set_channels_legacy(st, channels)

\* A setter that builds the default layout for the mask's channel count.
ctx_set_channel_layout_by_count(b, st, channel_layout) ==
  IF LIBAVCODEC_VERSION_MAJOR(b) >= 60
    THEN [st EXCEPT !.ch_layout =
            av_channel_layout_default(@, av_popcount64(channel_layout))]
  ELSE IF LIBAVCODEC_VERSION_MAJOR(b) >= 59 /\ LIBAVCODEC_VERSION_MINOR(b) >= 24
    THEN [st EXCEPT !.ch_layout = av_channel_layout_from_mask(@, channel_layout)]
  ELSE set_channel_layout_legacy(st, channel_layout)

\* ffctx_set_channel_layout, as compiled for build b.
ctx_set_channel_layout(b, st, channel_layout) ==
  IF LIBAVCODEC_VERSION_MAJOR(b) >= 60
    THEN [st EXCEPT !.ch_layout = av_channel_layout_from_mask(@, channel_layout)]
  ELSE IF LIBAVCODEC_VERSION_MAJOR(b) >= 59 /\ LIBAVCODEC_VERSION_MINOR(b) >= 24
    THEN [st EXCEPT !.ch_layout = av_channel_layout_from_mask(@, channel_layout)]
  ELSE set_channel_layout_legacy(st, channel_layout)

\* ffctx_get_channels, as compiled for build b.
ctx_get_channels(b, st) ==
  IF LIBAVCODEC_VERSION_MAJOR(b) >= 60 THEN st.ch_layout.nb_channels
  ELSE IF LIBAVCODEC_VERSION_MAJOR(b) >= 59 /\ LIBAVCODEC_VERSION_MINOR(b) >= 24
    THEN st.ch_layout.nb_channels
  ELSE st.channels

\* ffctx_get_channel_layout, as compiled for build b.
ctx_get_channel_layout(b, st) ==
  IF LIBAVCODEC_VERSION_MAJOR(b) >= 60 THEN layout_mask(st.ch_layout)
  ELSE IF LIBAVCODEC_VERSION_MAJOR(b) >= 59 /\ LIBAVCODEC_VERSION_MINOR(b) >= 24
    THEN layout_mask(st.ch_layout)
  ELSE st.channel_layout

\* ffframe_set_channels, as compiled for build b.
frame_set_channels(b, fr, channels) ==
  IF LIBAVUTIL_VERSION_MAJOR(b) >= 58
    THEN [fr EXCEPT !.ch_layout = av_channel_layout_default(@, channels)]
  ELSE IF LIBAVUTIL_VERSION_MAJOR(b) >= 57 /\ LIBAVUTIL_VERSION_MINOR(b) >= 24
    THEN [fr EXCEPT !.ch_layout = av_channel_layout_default(@, channels)]
  ELSE set_channels_legacy(fr, channels)

\* ffframe_set_channel_layout, as compiled for build b.
frame_set_channel_layout(b, fr, channel_layout) ==
  IF LIBAVUTIL_VERSION_MAJOR(b) >= 58
    THEN [fr EXCEPT !.ch_layout = av_channel_layout_from_mask(@, channel_layout)]
  ELSE IF LIBAVUTIL_VERSION_MAJOR(b) >= 57 /\ LIBAVUTIL_VERSION_MINOR(b) >= 24
    THEN [fr EXCEPT !.ch_layout = av_channel_layout_from_mask(@, channel_layout)]
  ELSE set_channel_layout_legacy(fr, channel_layout)

\* ffframe_get_channels, as compiled for build b.
frame_get_channels(b, fr) ==
  IF LIBAVUTIL_VERSION_MAJOR(b) >= 58 THEN fr.ch_layout.nb_channels
  ELSE IF LIBAVUTIL_VERSION_MAJOR(b) >= 57 /\ LIBAVUTIL_VERSION_MINOR(b) >= 24
    THEN fr.ch_layout.nb_channels
  ELSE fr.channels

\* ffframe_get_channel_layout, as compiled for build b.
frame_get_channel_layout(b, fr) ==
  IF LIBAVUTIL_VERSION_MAJOR(b) >= 58 THEN layout_mask(fr.ch_layout)
  ELSE IF LIBAVUTIL_VERSION_MAJOR(b) >= 57 /\ LIBAVUTIL_VERSION_MINOR(b) >= 24
    THEN layout_mask(fr.ch_layout)
  ELSE fr.channel_layout

\* A setter's step on the codec context's channel fields.
CtxSetter(fn, a, F(_, _)) ==
  /\ ~faulted
  /\ avctx' = [b \in Builds |-> F(b, avctx[b])]
  /\ call' = Call(fn, a, 0)
  /\ ret' = NoRet
  /\ ub' = "none"
  /\ UNCHANGED <<hwVars, frame, fmt, auxVars, parVars, faulted>>

\* A getter's step whose result depends on the build.
BuildGetter(fn, G(_)) ==
  /\ ~faulted
  /\ ret' = [b \in Builds |-> G(b)]
  /\ call' = Call(fn, 0, 0)
  /\ ub' = "none"
  /\ UNCHANGED <<hwVars, frame, avctx, fmt, auxVars, parVars, faulted>>

ffctx_set_channels(channels) ==
  LET F(b, st) == ctx_set_channels(b, st, channels)
  IN CtxSetter("ffctx_set_channels", channels, F)

ffctx_set_channel_layout(channel_layout) ==
  LET F(b, st) == ctx_set_channel_layout(b, st, channel_layout)
  IN CtxSetter("ffctx_set_channel_layout", channel_layout, F)

ffctx_get_channels ==
  LET G(b) == ctx_get_channels(b, avctx[b])
  IN BuildGetter("ffctx_get_channels", G)

ffctx_get_channel_layout ==
  LET G(b) == ctx_get_channel_layout(b, avctx[b])
  IN BuildGetter("ffctx_get_channel_layout", G)

ffframe_set_channels(channels) ==
  /\ ~faulted
  /\ frame' = [b \in Builds |-> frame_set_channels(b, frame[b], channels)]
  /\ call' = Call("ffframe_set_channels", channels, 0)
  /\ ret' = NoRet
  /\ ub' = "none"
  /\ UNCHANGED <<hwVars, avctx, fmt, auxVars, parVars, faulted>>

ffframe_set_channel_layout(channel_layout) ==
  /\ ~faulted
  /\ frame' = [b \in Builds |-> frame_set_channel_layout(b, frame[b], channel_layout)]
  /\ call' = Call("ffframe_set_channel_layout", channel_layout, 0)
  /\ ret' = NoRet
  /\ ub' = "none"
  /\ UNCHANGED <<hwVars, avctx, fmt, auxVars, parVars, faulted>>

ffframe_get_channels ==
  LET G(b) == frame_get_channels(b, frame[b])
  IN BuildGetter("ffframe_get_channels", G)

ffframe_get_channel_layout ==
  LET G(b) == frame_get_channel_layout(b, frame[b])
  IN BuildGetter("ffframe_get_channel_layout", G)

\* The channel fields of a struct holding layout l: the old fields and the
\* new descriptor (each build uses the ones it has).
ChannelFields(l) ==
  [channels |-> l.nb_channels, channel_layout |-> layout_mask(l), ch_layout |-> l]

\* A 64-bit value is <<high word, low word>>, each a signed 32-bit word; a
\* 32-bit value is an integer.
Int64(hi, lo) == <<hi, lo>>

\* The codec context holding layout l, its scalar fields as
\* avcodec_alloc_context3 leaves them.
CtxWith(l) ==
  [channels |-> l.nb_channels, channel_layout |-> layout_mask(l), ch_layout |-> l,
   width |-> 0, bit_rate |-> Int64(0, 200000)]

InitCtx == avctx = [b \in Builds |-> CtxWith(ZeroLayout)]

\* ffcodecpar_set_channels, as compiled for build b.
par_set_channels(b, st, channels) ==
  IF LIBAVCODEC_VERSION_MAJOR(b) >= 60
    THEN [st EXCEPT !.ch_layout = av_channel_layout_default(@, channels)]
  ELSE IF LIBAVCODEC_VERSION_MAJOR(b) >= 59 /\ LIBAVCODEC_VERSION_MINOR(b) >= 24
    THEN [st EXCEPT !.ch_layout = av_channel_layout_default(@, channels)]
  ELSE set_channels_legacy(st, channels)

\* ffcodecpar_get_channels, as compiled for build b.
par_get_channels(b, st) ==
  IF LIBAVCODEC_VERSION_MAJOR(b) >= 60 THEN st.ch_layout.nb_channels
  ELSE IF LIBAVCODEC_VERSION_MAJOR(b) >= 59 /\ LIBAVCODEC_VERSION_MINOR(b) >= 24
    THEN st.ch_layout.nb_channels
  ELSE st.channels

ffcodecpar_set_channels(channels) ==
  /\ ~faulted
  /\ par' = [par EXCEPT !.audio =
               [b \in Builds |-> par_set_channels(b, par.audio[b], channels)]]
  /\ call' = Call("ffcodecpar_set_channels", channels, 0)
  /\ ret' = NoRet
  /\ ub' = "none"
  /\ UNCHANGED <<hwVars, frame, avctx, fmt, auxVars, blocks, entry, faulted>>

ffcodecpar_get_channels ==
  LET G(b) == par_get_channels(b, par.audio[b])
  IN BuildGetter("ffcodecpar_get_channels", G)

\* The codec parameters holding layout l and no extradata.
ParWith(l) ==
  [extradata |-> NULL, extradata_size |-> 0,
   audio |-> [b \in Builds |-> ChannelFields(l)],
   codec_id |-> 0, bit_rate |-> Int64(0, 0)]

\* avcodec_parameters_alloc: no extradata, no channels.
InitPar ==
  /\ par = ParWith(ZeroLayout)
  /\ blocks = [k \in BlockIds |-> [live |-> FALSE, bytes |-> <<>>]]
  /\ entry = [supplied |-> <<>>, par |-> par]

(***************************************************************************)
(* Scalar fields: a setter is one store, a getter one load, parameter,     *)
(* field and result of one type.                                           *)
(***************************************************************************)
ctx_set_width(st, width) == [st EXCEPT !.width = width]
ctx_get_width(st) == st.width
ctx_set_bit_rate(st, bit_rate) == [st EXCEPT !.bit_rate = bit_rate]
\* A getter declared int: the low word, widened again by the caller.
ctx_get_bit_rate_int(st) ==
  Int64(IF st.bit_rate[2] < 0 THEN -1 ELSE 0, st.bit_rate[2])
ctx_get_bit_rate(st) == st.bit_rate

frame_set_format(fr, format) == [fr EXCEPT !.format = format]
frame_get_format(fr) == fr.format
frame_set_pts(fr, pts) == [fr EXCEPT !.pts = pts]
frame_get_pts(fr) == fr.pts
frame_get_pict_type(fr) == fr.pict_type

par_set_codec_id(P, codec_id) == [P EXCEPT !.codec_id = codec_id]
par_get_codec_id(P) == P.codec_id
par_set_bit_rate(P, bit_rate) == [P EXCEPT !.bit_rate = bit_rate]
par_get_bit_rate(P) == P.bit_rate

ffctx_set_width(width) ==
  LET F(b, st) == ctx_set_width(st, width)
  IN CtxSetter("ffctx_set_width", width, F)

ffctx_get_width ==
  LET G(b) == ctx_get_width(avctx[b])
  IN BuildGetter("ffctx_get_width", G)

ffctx_set_bit_rate(bit_rate) ==
  LET F(b, st) == ctx_set_bit_rate(st, bit_rate)
  IN CtxSetter("ffctx_set_bit_rate", bit_rate, F)

ffctx_get_bit_rate ==
  LET G(b) == ctx_get_bit_rate(avctx[b])
  IN BuildGetter("ffctx_get_bit_rate", G)

ffframe_set_format(format) ==
  LET F(fr) == frame_set_format(fr, format)
  IN FrameSetter("ffframe_set_format", format, 0, F)

ffframe_get_format ==
  LET G(b) == frame_get_format(frame[b])
  IN BuildGetter("ffframe_get_format", G)

ffframe_set_pts(pts) ==
  LET F(fr) == frame_set_pts(fr, pts)
  IN FrameSetter("ffframe_set_pts", pts, 0, F)

ffframe_get_pts ==
  LET G(b) == frame_get_pts(frame[b])
  IN BuildGetter("ffframe_get_pts", G)

\* A setter's step on the codec parameters: P is the struct after it.
ParSetter(fn, a, P) ==
  /\ ~faulted
  /\ par' = P
  /\ call' = Call(fn, a, 0)
  /\ ret' = NoRet
  /\ ub' = "none"
  /\ UNCHANGED <<hwVars, frame, avctx, fmt, auxVars, blocks, entry, faulted>>

ffcodecpar_set_codec_id(codec_id) ==
  ParSetter("ffcodecpar_set_codec_id", codec_id, par_set_codec_id(par, codec_id))

ffcodecpar_get_codec_id ==
  Getter("ffcodecpar_get_codec_id", 0, Returned(par_get_codec_id(par)))

ffcodecpar_set_bit_rate(bit_rate) ==
  ParSetter("ffcodecpar_set_bit_rate", bit_rate, par_set_bit_rate(par, bit_rate))

ffcodecpar_get_bit_rate ==
  Getter("ffcodecpar_get_bit_rate", 0, Returned(par_get_bit_rate(par)))

(***************************************************************************)
(* Version resolution.  The preprocessor picks, for each adapter, the      *)
(* first branch of its #if chain whose condition holds for the version     *)
(* macros of the linked library, the #else branch when none does.  A       *)
(* version is [major, minor]; a chain is a sequence of <<condition,        *)
(* generation>>, the #else branch last with condition TRUE.                *)
(***************************************************************************)
Generations == {"legacy", "ch_layout"}
KeyGenerations == {"key_frame", "flags"}

\* The index of the branch the preprocessor keeps.
BranchTaken(chain) ==
  Min({i \in 1..Len(chain) : chain[i][1]})

Selected(chain) == chain[BranchTaken(chain)][2]

chain_ffctx_set_channels(lavc) ==
  << <<lavc.major >= 60, "ch_layout">>,
     <<lavc.major >= 59 /\ lavc.minor >= 24, "ch_layout">>,
     <<TRUE, "legacy">> >>

chain_ffctx_set_channel_layout(lavc) ==
  << <<lavc.major >= 60, "ch_layout">>,
     <<lavc.major >= 59 /\ lavc.minor >= 24, "ch_layout">>,
     <<TRUE, "legacy">> >>

\* A chain that tests the minor version alone in its second branch.
chain_minor_only(lavc) ==
  << <<lavc.major >= 60, "ch_layout">>,
     <<lavc.minor >= 24, "ch_layout">>,
     <<TRUE, "legacy">> >>

chain_ffctx_get_channels(lavc) ==
  << <<lavc.major >= 60, "ch_layout">>,
     <<lavc.major >= 59 /\ lavc.minor >= 24, "ch_layout">>,
     <<TRUE, "legacy">> >>

chain_ffctx_get_channel_layout(lavc) ==
  << <<lavc.major >= 60, "ch_layout">>,
     <<lavc.major >= 59 /\ lavc.minor >= 24, "ch_layout">>,
     <<TRUE, "legacy">> >>

chain_ffframe_set_channels(lavu) ==
  << <<lavu.major >= 58, "ch_layout">>,
     <<lavu.major >= 57 /\ lavu.minor >= 24, "ch_layout">>,
     <<TRUE, "legacy">> >>

chain_ffframe_set_channel_layout(lavu) ==
  << <<lavu.major >= 58, "ch_layout">>,
     <<lavu.major >= 57 /\ lavu.minor >= 24, "ch_layout">>,
     <<TRUE, "legacy">> >>

chain_ffframe_get_channels(lavu) ==
  << <<lavu.major >= 58, "ch_layout">>,
     <<lavu.major >= 57 /\ lavu.minor >= 24, "ch_layout">>,
     <<TRUE, "legacy">> >>

chain_ffframe_get_channel_layout(lavu) ==
  << <<lavu.major >= 58, "ch_layout">>,
     <<lavu.major >= 57 /\ lavu.minor >= 24, "ch_layout">>,
     <<TRUE, "legacy">> >>

chain_ffcodecpar_get_channels(lavc) ==
  << <<lavc.major >= 60, "ch_layout">>,
     <<lavc.major >= 59 /\ lavc.minor >= 24, "ch_layout">>,
     <<TRUE, "legacy">> >>

chain_ffcodecpar_set_channels(lavc) ==
  << <<lavc.major >= 60, "ch_layout">>,
     <<lavc.major >= 59 /\ lavc.minor >= 24, "ch_layout">>,
     <<TRUE, "legacy">> >>

chain_ffframe_set_key_frame(lavu) ==
  << <<lavu.major >= 59, "flags">>, <<TRUE, "key_frame">> >>

chain_ffframe_get_key_frame(lavu) ==
  << <<lavu.major >= 59, "flags">>, <<TRUE, "key_frame">> >>

\* The versioned adapters, by the struct whose fields they touch.
CtxAdapters == {"ffctx_set_channels", "ffctx_set_channel_layout",
                "ffctx_get_channels", "ffctx_get_channel_layout"}
FrameAdapters == {"ffframe_set_channels", "ffframe_set_channel_layout",
                  "ffframe_get_channels", "ffframe_get_channel_layout"}
ParAdapters == {"ffcodecpar_get_channels", "ffcodecpar_set_channels"}
KeyAdapters == {"ffframe_set_key_frame", "ffframe_get_key_frame"}
Adapters == CtxAdapters \cup FrameAdapters \cup ParAdapters \cup KeyAdapters

ChainOf(fn, lavc, lavu) ==
  CASE fn = "ffctx_set_channels" -> chain_ffctx_set_channels(lavc)
    [] fn = "ffctx_set_channel_layout" -> chain_ffctx_set_channel_layout(lavc)
    [] fn = "ffctx_get_channels" -> chain_ffctx_get_channels(lavc)
    [] fn = "ffctx_get_channel_layout" -> chain_ffctx_get_channel_layout(lavc)
    [] fn = "ffframe_set_channels" -> chain_ffframe_set_channels(lavu)
    [] fn = "ffframe_set_channel_layout" -> chain_ffframe_set_channel_layout(lavu)
    [] fn = "ffframe_get_channels" -> chain_ffframe_get_channels(lavu)
    [] fn = "ffframe_get_channel_layout" -> chain_ffframe_get_channel_layout(lavu)
    [] fn = "ffcodecpar_get_channels" -> chain_ffcodecpar_get_channels(lavc)
    [] fn = "ffcodecpar_set_channels" -> chain_ffcodecpar_set_channels(lavc)
    [] fn = "ffframe_set_key_frame" -> chain_ffframe_set_key_frame(lavu)
    [] fn = "ffframe_get_key_frame" -> chain_ffframe_get_key_frame(lavu)

\* The generation whose fields the struct definitions in the headers must
\* declare for the adapter to compile: declared is [ctx, frame, par, key],
\* the generations each struct's definition has fields for.
DeclaredFor(fn, declared) ==
  IF fn \in CtxAdapters THEN declared.ctx
  ELSE IF fn \in FrameAdapters THEN declared.frame
  ELSE IF fn \in ParAdapters THEN declared.par
  ELSE declared.key

\* Compiling the file against the library's headers: every adapter keeps one
\* branch; a branch that names a field the struct does not declare is a
\* compile error, and one error fails the build.
compile ==
  /\ ~faulted
  /\ build.result = "none"
  /\ LET sel == [fn \in Adapters |-> Selected(ChainOf(fn, build.lavc, build.lavu))]
         ok == \A fn \in Adapters : sel[fn] \in DeclaredFor(fn, build.declared)
     IN build' = [build EXCEPT !.selected = sel,
                               !.result = IF ok THEN "built" ELSE "error"]
  /\ call' = Call("compile", 0, 0)
  /\ ret' = NoRet
  /\ ub' = "none"
  /\ UNCHANGED <<hwVars, frame, avctx, fmt, parVars, rational, faulted>>

\* Nothing compiled yet; the versions are those of the first build modelled.
NotBuilt(lavc, lavu, declared) ==
  [lavc |-> lavc, lavu |-> lavu, declared |-> declared,
   selected |-> [fn \in Adapters |-> "none"], result |-> "none"]

InitBuild ==
  build = NotBuilt([major |-> 58, minor |-> 134], [major |-> 56, minor |-> 70],
                   [ctx |-> {"legacy"}, frame |-> {"legacy"}, par |-> {"legacy"},
                    key |-> {"key_frame"}])

(***************************************************************************)
(* Rational fields.  A setter is two stores and a getter two loads, with   *)
(* no lock around them, so calls of two threads on one struct interleave   *)
(* store by store.  rational holds the codec context's time_base, where    *)
(* the setting thread and the getting thread stand, the pairs passed to    *)
(* setters so far (passed), the pair the last getter returned (got) and    *)
(* whether a setter ran at any time during that getter (get_raced).        *)
(***************************************************************************)
NoPair == <<>>

\* Two plain accesses of one field by two threads, one a store: a data race.
Races(other_pc) == IF other_pc # "idle" THEN "data_race" ELSE "none"

RationalStep(fn, a, b, R, race) ==
  /\ ~faulted
  /\ rational' = R
  /\ call' = Call(fn, a, b)
  /\ ret' = NoRet
  /\ ub' = race
  /\ UNCHANGED <<hwVars, frame, avctx, fmt, parVars, build, faulted>>

\* ffctx_set_time_base, line 77: ctx->time_base.num = num.
ffctx_set_time_base_num(num, den) ==
  /\ rational.set_pc = "idle"
  /\ RationalStep("ffctx_set_time_base", num, den,
       [rational EXCEPT !.time_base.num = num,
                        !.set_pc = "den", !.set_den = den,
                        !.passed = @ \cup {<<num, den>>},
                        !.get_raced = @ \/ rational.get_pc # "idle"],
       Races(rational.get_pc))

\* A setter that returns without storing the denominator.
ffctx_set_time_base_num_only ==
  /\ rational.set_pc = "den"
  /\ RationalStep("ffctx_set_time_base", rational.time_base.num, rational.set_den,
       [rational EXCEPT !.set_pc = "idle", !.set_den = 0],
       Races(rational.get_pc))

\* ffctx_set_time_base, line 78: ctx->time_base.den = den; return.
ffctx_set_time_base_den ==
  /\ rational.set_pc = "den"
  /\ RationalStep("ffctx_set_time_base", rational.time_base.num, rational.set_den,
       [rational EXCEPT !.time_base.den = rational.set_den,
                        !.set_pc = "idle", !.set_den = 0,
                        !.get_raced = @ \/ rational.get_pc # "idle"],
       Races(rational.get_pc))

\* ffctx_get_time_base, line 190: *num = ctx->time_base.num.
ffctx_get_time_base_num ==
  /\ rational.get_pc = "idle"
  /\ RationalStep("ffctx_get_time_base", 0, 0,
       [rational EXCEPT !.get_pc = "den", !.get_num = rational.time_base.num,
                        !.got = NoPair,
                        !.get_raced = rational.set_pc # "idle"],
       Races(rational.set_pc))

\* ffctx_get_time_base, line 191: *den = ctx->time_base.den; return.
ffctx_get_time_base_den ==
  /\ rational.get_pc = "den"
  /\ RationalStep("ffctx_get_time_base", 0, 0,
       [rational EXCEPT !.get_pc = "idle", !.get_num = 0,
                        !.got = <<rational.get_num, rational.time_base.den>>],
       Races(rational.set_pc))

\* avcodec_alloc_context3 leaves time_base 0/1; no call in progress.
InitRational ==
  rational = [time_base |-> [num |-> 0, den |-> 1],
              set_pc |-> "idle", set_den |-> 0,
              get_pc |-> "idle", get_num |-> 0,
              passed |-> {<<0, 1>>}, got |-> NoPair, get_raced |-> FALSE]

\* A frame as av_frame_alloc leaves it, with the flags word and the
\* key-frame field as a decoder filled them in.
FrameWith(flags) ==
  [flags |-> flags,
   key_frame |-> IF BitAnd(flags, AV_FRAME_FLAG_KEY) # 0 THEN 1 ELSE 0,
   pict_type |-> 0,
   data |-> [i \in 0..(AV_NUM_DATA_POINTERS - 1) |-> NULL],
   linesize |-> [i \in 0..(AV_NUM_DATA_POINTERS - 1) |-> 0],
   extended_data |-> DATA_ARRAY,
   channels |-> 0,
   channel_layout |-> 0,
   ch_layout |-> ZeroLayout,
   format |-> -1,
   pts |-> Int64(-2147483647 - 1, 0)]

InitFrame == frame = [b \in Builds |-> FrameWith(0)]

\* A format context with n streams, as avformat_new_stream builds it.
FmtWith(n) == [nb_streams |-> n, streams |-> [i \in 0..(n - 1) |-> 200 + i]]

InitFmt == fmt = FmtWith(0)

InitShared ==
  /\ ub = "none"
  /\ faulted = FALSE
  /\ call = Call("init", 0, 0)
  /\ ret = NoRet

Init ==
  /\ InitHw
  /\ InitFrame
  /\ InitCtx
  /\ InitFmt
  /\ InitPar
  /\ InitBuild
  /\ InitRational
  /\ InitShared

NextHw ==
  \/ \E arg \in HwArgs, ok \in BOOLEAN, o \in UBOutcomes :
       ffctx_set_hw_device_ctx(arg, ok, o)
  \/ \E arg \in HwArgs, ok \in BOOLEAN, o \in UBOutcomes :
       ffctx_set_hw_frames_ctx(arg, ok, o)
  \/ \E r \in RefIds, ok \in BOOLEAN : HostRef(r, ok)
  \/ \E r \in RefIds : HostUnref(r)

SpecHw == Init /\ [][NextHw]_vars

\* The number of references held on object o: by the host, by the fields.
Holders(o) ==
  Cardinality({r \in host : refs[r].buffer = o})
  + (IF hw_device_ctx # NULL /\ refs[hw_device_ctx].buffer = o THEN 1 ELSE 0)
  + (IF hw_frames_ctx # NULL /\ refs[hw_frames_ctx].buffer = o THEN 1 ELSE 0)

\* C1: the count of every object is the number of references the host holds
\* on it plus one for each context field that currently references it.
C1_RefCountConservation ==
  \A o \in Objects : refcount[o] = Holders(o)

\* C2: each reference field is empty or holds a live reference on a buffer
\* whose count is at least one, and no setter hands a released reference to
\* av_buffer_ref.
C2_FieldHoldsLiveRef ==
  /\ \A f \in {hw_device_ctx, hw_frames_ctx} :
       f # NULL => refs[f].live /\ refcount[refs[f].buffer] >= 1
  /\ ub # "acquire_released"

(***************************************************************************)
(* The key-frame adapter on frames whose flags word a decoder has written. *)
(***************************************************************************)
\* Flags words a decoder leaves: CORRUPT (1), KEY (2), DISCARD (4),
\* INTERLACED (8) in combinations.
InitFlags == {0, 2, 5, 13, 15}
\* Arguments of ffframe_set_key_frame: an int.
KeyFrameArgs == {0, 1, 2, -1}
PictTypes == {0, 1}

InitKeyFrame ==
  /\ InitHw
  /\ \E f \in InitFlags : frame = [b \in Builds |-> FrameWith(f)]
  /\ InitCtx
  /\ InitFmt
  /\ InitPar
  /\ InitBuild
  /\ InitRational
  /\ InitShared

NextKeyFrame ==
  \/ \E k \in KeyFrameArgs : ffframe_set_key_frame(k)
  \/ ffframe_get_key_frame
  \/ \E p \in PictTypes : ffframe_set_pict_type(p)
  \/ ffframe_get_pict_type

SpecKeyFrame == InitKeyFrame /\ [][NextKeyFrame]_vars

\* What ffframe_set_key_frame must leave alone in build b: every flag bit
\* but the key bit where the signal is a flag bit, every field but key_frame
\* where it is a field.
NonKeyPart(b, fr) ==
  IF LIBAVUTIL_VERSION_MAJOR(b) >= 59
    THEN [fr EXCEPT !.flags = BitClear(@, AV_FRAME_FLAG_KEY)]
    ELSE [fr EXCEPT !.key_frame = 0]

\* C3: no call of ffframe_set_key_frame changes a flag bit other than the
\* key bit (flags generation) or a field other than key_frame (field
\* generation); so set(true) then set(false) leaves them as they were.
C3_KeyFrameKeepsOthers ==
  [][call'.fn = "ffframe_set_key_frame"
       => \A b \in Builds : NonKeyPart(b, frame'[b]) = NonKeyPart(b, frame[b])]_vars

\* A key-frame clear on a frame whose other flag bits are set.
C3_Witness ==
  /\ call = Call("ffframe_set_key_frame", 0, 0)
  /\ \E b \in Builds :
       /\ LIBAVUTIL_VERSION_MAJOR(b) >= 59
       /\ frame[b].flags = 13
  /\ \E b \in Builds :
       /\ LIBAVUTIL_VERSION_MAJOR(b) < 59
       /\ frame[b].flags = 15 /\ frame[b].key_frame = 0 /\ frame[b].pict_type = 1

\* C4: ffframe_get_key_frame returns the same value in every build after
\* the same calls.
C4_KeyFrameSameInAllBuilds ==
  call.fn = "ffframe_get_key_frame"
    => \A b1, b2 \in Builds : ret[b1] = ret[b2]

(***************************************************************************)
(* The indexed accessors, on a frame with planes filled in and a format    *)
(* context with some streams.                                              *)
(***************************************************************************)
\* Plane indexes callers pass.
PlaneArgs == -1..(AV_NUM_DATA_POINTERS + 2)
\* Planes the setters are called on, in and out of range.
SetPlaneArgs == {-1, 0, AV_NUM_DATA_POINTERS - 1, AV_NUM_DATA_POINTERS}
\* Stream indexes callers pass (unsigned int), a very large one among them.
StreamArgs == (0..(MaxStreams + 1)) \cup {2147483647}
\* What a read outside an array can yield when it does not fault.
Garbage == {0, 99}

\* A frame as av_frame_get_buffer fills it: a buffer and a stride per plane.
FilledFrame(fr) ==
  [fr EXCEPT !.data = [i \in 0..(AV_NUM_DATA_POINTERS - 1) |-> 300 + i],
             !.linesize = [i \in 0..(AV_NUM_DATA_POINTERS - 1) |-> 64 + i]]

InitPlanes ==
  /\ InitHw
  /\ frame = [b \in Builds |-> FilledFrame(FrameWith(0))]
  /\ InitCtx
  /\ \E n \in 0..MaxStreams : fmt = FmtWith(n)
  /\ InitPar
  /\ InitBuild
  /\ InitRational
  /\ InitShared

NextPlanes ==
  \/ \E p \in PlaneArgs, o \in UBOutcomes, g \in Garbage : ffframe_data(p, o, g)
  \/ \E p \in PlaneArgs, o \in UBOutcomes, g \in Garbage : ffframe_data_const(p, o, g)
  \/ \E p \in PlaneArgs, o \in UBOutcomes, g \in Garbage : ffframe_linesize(p, o, g)
  \/ \E p \in PlaneArgs, o \in UBOutcomes, g \in Garbage :
       ffframe_extended_data_plane(p, o, g)
  \/ \E i \in StreamArgs, o \in UBOutcomes, g \in Garbage : fffmt_get_stream(i, o, g)
  \/ fffmt_get_nb_streams
  \/ \E p \in SetPlaneArgs : ffframe_set_data(p, 77)
  \/ \E p \in SetPlaneArgs : ffframe_set_linesize(p, 32)
  \/ \E e \in ExtPointers : ffframe_set_extended_data(e)

SpecPlanes == InitPlanes /\ [][NextPlanes]_vars

OutOfPlanes(plane) == plane < 0 \/ plane >= AV_NUM_DATA_POINTERS

\* C5: ffframe_extended_data_plane returns NULL for every plane index below
\* 0 or at or beyond AV_NUM_DATA_POINTERS and never reads outside the array.
C5_ExtendedPlaneSentinel ==
  call.fn = "ffframe_extended_data_plane"
    => /\ ub = "none" /\ ~faulted
       /\ OutOfPlanes(call.a) => \A b \in Builds : ret[b] = NULL

\* C6: ffframe_data, ffframe_data_const and ffframe_linesize return NULL / 0
\* for a plane index outside 0..AV_NUM_DATA_POINTERS-1 and the stored element
\* otherwise; fffmt_get_stream returns NULL for an index >= nb_streams and
\* the stored stream otherwise; none reads outside its array.
C6_IndexedGetters ==
  \A b \in Builds :
    /\ call.fn \in {"ffframe_data", "ffframe_data_const"}
         => /\ ub = "none" /\ ~faulted
            /\ ret[b] = IF OutOfPlanes(call.a) THEN NULL ELSE frame[b].data[call.a]
    /\ call.fn = "ffframe_linesize"
         => /\ ub = "none" /\ ~faulted
            /\ ret[b] = IF OutOfPlanes(call.a) THEN 0 ELSE frame[b].linesize[call.a]
    /\ call.fn = "fffmt_get_stream"
         => /\ ub = "none" /\ ~faulted
            /\ ret[b] = IF call.a >= fmt.nb_streams THEN NULL ELSE fmt.streams[call.a]

\* The first index out of range, on a format context that has streams and
\* a frame whose last plane was set.
C6_Witness ==
  /\ call = Call("fffmt_get_stream", fmt.nb_streams, 0)
  /\ fmt.nb_streams > 0
  /\ ret = Ret(NULL)
  /\ \A b \in Builds : frame[b].data[AV_NUM_DATA_POINTERS - 1] = 77

(***************************************************************************)
(* The extradata setter under every argument a caller can pass.            *)
(***************************************************************************)
SizeArgs == -1..MaxSize

NextExtradata ==
  \/ \E d \in DataArgs, n \in SizeArgs, k \in AllocResults :
       \E o \in ReadOutcomes(d) : ffcodecpar_set_extradata(d, n, k, o)
  \/ ffcodecpar_get_extradata
  \/ ffcodecpar_get_extradata_size

SpecExtradata == Init /\ [][NextExtradata]_vars

LiveBlocks == {k \in BlockIds : blocks[k].live}
ClearCall == call.fn = "ffcodecpar_set_extradata" /\ (call.a = NULL \/ call.b <= 0)
CopyCall == call.fn = "ffcodecpar_set_extradata" /\ call.a # NULL /\ call.b > 0

\* C7: after ffcodecpar_set_extradata with data == NULL or size <= 0 the
\* extradata is NULL, its size 0, the result 0 and no allocation is left.
C7_ClearExtradata ==
  ClearCall =>
    /\ get_extradata(par) = NULL
    /\ get_extradata_size(par) = 0
    /\ ret = Ret(0)
    /\ LiveBlocks = {}
    /\ ub = "none" /\ ~faulted

\* A clearing call with a non-null pointer and size 0, on a struct that held
\* extradata before.
C7_Witness ==
  /\ call.fn = "ffcodecpar_set_extradata" /\ call.a \in CallerPtrs /\ call.b = 0
  /\ entry.par.extradata # NULL /\ entry.par.extradata_size = MaxSize

\* C8: after a successful ffcodecpar_set_extradata with data and size > 0 the
\* size is the one passed, the first size bytes are the bytes supplied, the
\* padding is zero, the result is 0 and the struct's block is the only live
\* allocation.
C8_ExtradataCopied ==
  (CopyCall /\ ret = Ret(0) /\ ~faulted) =>
    /\ get_extradata_size(par) = call.b
    /\ get_extradata(par) \in BlockIds
    /\ LiveBlocks = {get_extradata(par)}
    /\ LET bytes == blocks[get_extradata(par)].bytes IN
         /\ Len(bytes) = call.b + AV_INPUT_BUFFER_PADDING_SIZE
         /\ Prefix(bytes, call.b) = entry.supplied
         /\ \A i \in (call.b + 1)..Len(bytes) : bytes[i] = 0

\* C9: a call that had to allocate and left no extradata returned
\* AVERROR(ENOMEM); a call that returned it did not fault and left extradata
\* NULL with size 0; and the size is positive only with extradata non-null.
C9_AllocationFailure ==
  /\ (CopyCall /\ ~faulted /\ par.extradata = NULL) => ret = Ret(AVERROR(ENOMEM))
  /\ (call.fn = "ffcodecpar_set_extradata" /\ ret = Ret(AVERROR(ENOMEM))) =>
       /\ ~faulted /\ ub = "none"
       /\ par.extradata = NULL /\ par.extradata_size = 0
       /\ LiveBlocks = {}
  /\ par.extradata_size > 0 => par.extradata # NULL

\* An allocation failure on a struct that held extradata before the call.
C9_Witness ==
  /\ CopyCall /\ ret = Ret(AVERROR(ENOMEM))
  /\ entry.par.extradata # NULL /\ entry.par.extradata_size = MaxSize

\* C16: no ffcodecpar_set_extradata call with data and size > 0 reads freed
\* storage, and a call passed the struct's own extradata and size leaves the
\* bytes that were stored before it.
C16_NeverReadsFreed ==
  CopyCall =>
    /\ ub # "read_freed"
    /\ ~faulted
    /\ (call.a = entry.par.extradata /\ call.b = entry.par.extradata_size
        /\ ret = Ret(0))
         => /\ get_extradata(par) \in BlockIds
            /\ Prefix(blocks[get_extradata(par)].bytes, call.b) = entry.supplied

(***************************************************************************)
(* The channel-layout adapters of the codec context and of the frame.      *)
(***************************************************************************)
\* Channel counts callers pass: with a listed default layout, and without.
ChannelArgs == {0, 1, 2, 3, 9}
\* Masks callers pass: 0, mono, stereo, 3.0, 2.1, 4.0, and FL alone.
MaskArgs == {0, 4, 3, 7, 11, 263, 1}
\* Layouts a decoder leaves in a struct before the host touches it.
InitLayouts == {ZeroLayout,
                [order |-> "CUSTOM", nb_channels |-> 2, mask |-> 0],
                [order |-> "NATIVE", nb_channels |-> 2, mask |-> 3]}

WithLayout(st, l) ==
  [st EXCEPT !.channels = l.nb_channels, !.channel_layout = layout_mask(l),
             !.ch_layout = l]

InitChannels ==
  /\ InitHw
  /\ \E l \in InitLayouts :
       /\ frame = [b \in Builds |-> WithLayout(FrameWith(0), l)]
       /\ avctx = [b \in Builds |-> CtxWith(l)]
  /\ InitFmt
  /\ InitPar
  /\ InitBuild
  /\ InitRational
  /\ InitShared

NextChannels ==
  \/ \E n \in ChannelArgs : ffctx_set_channels(n)
  \/ \E m \in MaskArgs : ffctx_set_channel_layout(m)
  \/ ffctx_get_channels
  \/ ffctx_get_channel_layout
  \/ \E n \in ChannelArgs : ffframe_set_channels(n)
  \/ \E m \in MaskArgs : ffframe_set_channel_layout(m)
  \/ ffframe_get_channels
  \/ ffframe_get_channel_layout

SpecChannels == InitChannels /\ [][NextChannels]_vars

\* C10: right after set_channel_layout(mask) with a non-zero mask, the
\* getter of the same struct returns mask, in every build, for the codec
\* context and for the frame.
C10_LayoutRoundTrip ==
  \A b \in Builds :
    /\ (call.fn = "ffctx_set_channel_layout" /\ call.a # 0)
         => ctx_get_channel_layout(b, avctx[b]) = call.a
    /\ (call.fn = "ffframe_set_channel_layout" /\ call.a # 0)
         => frame_get_channel_layout(b, frame[b]) = call.a

\* The codec context given the 3.0 layout, which is not the default for its
\* three channels, while the frame holds the 4.0 layout set earlier.
C10_Witness ==
  /\ call = Call("ffctx_set_channel_layout", 7, 0)
  /\ \A b \in Builds :
       /\ ctx_get_channels(b, avctx[b]) = 3
       /\ frame_get_channel_layout(b, frame[b]) = 263

\* What a caller observes of a struct's channel layout in build b.
CtxObserved(b) ==
  <<ctx_get_channels(b, avctx[b]), ctx_get_channel_layout(b, avctx[b])>>
FrameObserved(b) ==
  <<frame_get_channels(b, frame[b]), frame_get_channel_layout(b, frame[b])>>

\* C12: after every sequence of set_channels and set_channel_layout calls
\* the observed (channels, channel_layout) pair of the codec context, and of
\* the frame, is the same in every build, and right after set_channels(n)
\* the layout observed is the default mask for n.
C12_SameObservationInAllBuilds ==
  \A b1 \in Builds :
    /\ \A b2 \in Builds :
         /\ CtxObserved(b1) = CtxObserved(b2)
         /\ FrameObserved(b1) = FrameObserved(b2)
    /\ call.fn = "ffctx_set_channels"
         => ctx_get_channel_layout(b1, avctx[b1]) = DefaultMask(call.a)
    /\ call.fn = "ffframe_set_channels"
         => frame_get_channel_layout(b1, frame[b1]) = DefaultMask(call.a)

(***************************************************************************)
(* The channel-count adapters of the codec context, the frame and the      *)
(* codec parameters.                                                       *)
(***************************************************************************)
\* The layouts held before the call: those a decoder leaves, and the 3.0
\* layout, whose mask is not the default for its count.
PriorLayouts ==
  InitLayouts \cup {[order |-> "NATIVE", nb_channels |-> 3, mask |-> 7]}

InitChannelCount ==
  /\ InitHw
  /\ \E l \in PriorLayouts :
       /\ frame = [b \in Builds |-> WithLayout(FrameWith(0), l)]
       /\ avctx = [b \in Builds |-> CtxWith(l)]
       /\ par = ParWith(l)
  /\ blocks = [k \in BlockIds |-> [live |-> FALSE, bytes |-> <<>>]]
  /\ entry = [supplied |-> <<>>, par |-> par]
  /\ InitFmt
  /\ InitBuild
  /\ InitRational
  /\ InitShared

NextChannelCount ==
  \/ \E n \in ChannelArgs : ffctx_set_channels(n)
  \/ ffctx_get_channels
  \/ \E n \in ChannelArgs : ffframe_set_channels(n)
  \/ ffframe_get_channels
  \/ \E n \in ChannelArgs : ffcodecpar_set_channels(n)
  \/ ffcodecpar_get_channels

SpecChannelCount == InitChannelCount /\ [][NextChannelCount]_vars

\* C11: right after set_channels(n) the getter of the same struct returns n,
\* in every build, for the codec context, the frame and the codec
\* parameters, whether or not n has a default layout.
C11_ChannelsRoundTrip ==
  \A b \in Builds :
    /\ call.fn = "ffctx_set_channels" => ctx_get_channels(b, avctx[b]) = call.a
    /\ call.fn = "ffframe_set_channels" => frame_get_channels(b, frame[b]) = call.a
    /\ call.fn = "ffcodecpar_set_channels"
         => par_get_channels(b, par.audio[b]) = call.a

\* The codec parameters given 9 channels, a count without a default layout,
\* over a native layout; the frame and the context hold other counts.
C11_Witness ==
  /\ call = Call("ffcodecpar_set_channels", 9, 0)
  /\ \A b \in Builds :
       /\ par_get_channels(b, par.audio[b]) = 9
       /\ ctx_get_channels(b, avctx[b]) = 1
       /\ frame_get_channels(b, frame[b]) = 0

(***************************************************************************)
(* The build, for every version of libavcodec and libavutil and every      *)
(* set of fields their struct definitions declare.                         *)
(***************************************************************************)
AvcodecMajors == 57..62
AvutilMajors == 55..60
Minors == {0, 23, 24, 134}
Versions(majors) == {[major |-> j, minor |-> n] : j \in majors, n \in Minors}
\* The libavcodec structs change generation together.
Declarations ==
  {[ctx |-> c, frame |-> f, par |-> c, key |-> k] :
     c \in SUBSET Generations, f \in SUBSET Generations,
     k \in SUBSET KeyGenerations}

InitVersions ==
  /\ InitHw
  /\ InitFrame
  /\ InitCtx
  /\ InitFmt
  /\ InitPar
  /\ \E lavc \in Versions(AvcodecMajors), lavu \in Versions(AvutilMajors),
        d \in Declarations : build = NotBuilt(lavc, lavu, d)
  /\ InitRational
  /\ InitShared

NextVersions == compile

SpecVersions == InitVersions /\ [][NextVersions]_vars

\* The branches of a chain the preprocessor keeps: a branch whose condition
\* holds and that no earlier branch's condition hides.
BranchesKept(chain) ==
  {i \in 1..Len(chain) : chain[i][1] /\ \A j \in 1..(i - 1) : ~chain[j][1]}

SameGeneration(fns) ==
  \A f \in fns, g \in fns : build.selected[f] = build.selected[g]

RationalArgs == {<<1, 25>>, <<1001, 30000>>, <<1, 0>>}

NextRational ==
  \/ \E r \in RationalArgs : ffctx_set_time_base_num(r[1], r[2])
  \/ ffctx_set_time_base_den
  \/ ffctx_get_time_base_num
  \/ ffctx_get_time_base_den

SpecRational == Init /\ [][NextRational]_vars

IntArgs == {-1, 2147483647}
\* 2^32 and -1 as 64-bit values.
Int64Args == {Int64(1, 0)}
NegInt64Args == {Int64(-1, -1)}
CodecIdArgs == {2147483647}
\* <<plane, pointer>> for the last plane.
PlaneData == {<<AV_NUM_DATA_POINTERS - 1, 302>>}

NextScalars ==
  \/ \E v \in IntArgs : ffctx_set_width(v)
  \/ ffctx_get_width
  \/ \E v \in Int64Args : ffctx_set_bit_rate(v)
  \/ ffctx_get_bit_rate
  \/ \E v \in IntArgs : ffframe_set_format(v)
  \/ ffframe_get_format
  \/ \E v \in Int64Args : ffframe_set_pts(v)
  \/ ffframe_get_pts
  \/ ffframe_set_key_frame(1)
  \/ \E d \in PlaneData : ffframe_set_data(d[1], d[2])
  \/ \E d \in PlaneData : ffframe_data(d[1], "stale", 0)
  \/ \E v \in CodecIdArgs : ffcodecpar_set_codec_id(v)
  \/ ffcodecpar_get_codec_id
  \/ \E v \in NegInt64Args : ffcodecpar_set_bit_rate(v)
  \/ ffcodecpar_get_bit_rate

SpecScalars == Init /\ [][NextScalars]_vars

\* What the getters return, field by field, in every build.
Scalars ==
  [ffctx_set_width |-> [b \in Builds |-> ctx_get_width(avctx[b])],
   ffctx_set_bit_rate |-> [b \in Builds |-> ctx_get_bit_rate(avctx[b])],
   ffframe_set_format |-> [b \in Builds |-> frame_get_format(frame[b])],
   ffframe_set_pts |-> [b \in Builds |-> frame_get_pts(frame[b])],
   ffframe_set_data |->
     [b \in Builds |-> [i \in 0..(AV_NUM_DATA_POINTERS - 1) |->
                          frame_data(frame[b], i, "stale", 0).v]],
   ffcodecpar_set_codec_id |-> [b \in Builds |-> par_get_codec_id(par)],
   ffcodecpar_set_bit_rate |-> [b \in Builds |-> par_get_bit_rate(par)]]

ScalarSetters == DOMAIN Scalars

\* Right after set_F(s, v) the getter of F returns v.
ScalarRoundTrip ==
  /\ \A f \in ScalarSetters \ {"ffframe_set_data"} :
       call.fn = f => Scalars[f] = Ret(call.a)
  /\ call.fn = "ffframe_set_data" =>
       \A b \in Builds : Scalars["ffframe_set_data"][b][call.a] = call.b

\* A call that is not the setter of F leaves what the getter of F returns;
\* ffframe_set_data leaves the planes other than its own.
ScalarPersists ==
  /\ \A f \in ScalarSetters : call'.fn # f => Scalars'[f] = Scalars[f]
  /\ call'.fn = "ffframe_set_data" =>
       \A b \in Builds : \A i \in 0..(AV_NUM_DATA_POINTERS - 1) :
         i # call'.a => Scalars'["ffframe_set_data"][b][i]
                          = Scalars["ffframe_set_data"][b][i]

\* C15: set_F(s, v) followed by get_F(s) returns v as passed, and the value
\* stays through calls of the setters of other fields of the same struct,
\* for the codec context, the frame and the codec parameters.
C15_ScalarRoundTrip == []ScalarRoundTrip /\ [][ScalarPersists]_vars

\* The context's bit rate read back as 2^32 after the width was set to -1
\* in between.
C15_Witness ==
  /\ call.fn = "ffctx_get_bit_rate"
  /\ ret = Ret(Int64(1, 0))
  /\ \A b \in Builds : ctx_get_width(avctx[b]) = -1

====
